---- MODULE Spec2Model ----
(***************************************************************************)
(* ttnn/tensor.py: the layout / shape conversion layer of ttnn.  A Tensor  *)
(* is a record of its logical shape, padded shape, layout tag, storage     *)
(* location, dtype, the buffer it refers to (buf) and the identity of the  *)
(* Python object (obj).  The state is the list of Tensor objects the       *)
(* caller holds and the list of calls made so far; every call is applied   *)
(* to the tensor returned last.                                            *)
(***************************************************************************)
EXTENDS Integers, Sequences, FiniteSets, TLC

VARIABLES tensors, calls

vars == <<tensors, calls>>

(* ------------------------------ bounds -------------------------------- *)
\* number of calls in one behaviour
MaxCalls == 1
\* batch dimensions range over 1..MaxBatch
MaxBatch == 2
\* the padded leading dimension exceeds the logical one by 0..MaxBatchPad
MaxBatchPad == 1

(* ----------------------------- constants ------------------------------ *)
TILE_SIZE == 32

ROW_MAJOR_LAYOUT == "ROW_MAJOR"

TILE_LAYOUT == "TILE"

DEVICE_STORAGE_TYPE == "DEVICE"

HOST_STORAGE_TYPE == "HOST"

DRAM_MEMORY_CONFIG == "DRAM"

L1_MEMORY_CONFIG == "L1"

Layouts == {ROW_MAJOR_LAYOUT, TILE_LAYOUT}

MemoryConfigs == {DRAM_MEMORY_CONFIG, L1_MEMORY_CONFIG}

DataTypes == {"bfloat16", "float32"}

Devices == {"device0", "device1"}

NoDevice == "NONE"

NoMemory == "NONE"

(* --------------------------- sequences -------------------------------- *)
RECURSIVE Prod(_)
\* math.prod
Prod(s) == IF Len(s) = 0 THEN 1 ELSE Head(s) * Prod(Tail(s))

\* tuple.count
Count(s, v) == Cardinality({i \in 1..Len(s) : s[i] = v})

\* s[-1]
Last(s) == s[Len(s)]

\* list(s)[-2:]
Last2(s) == IF Len(s) >= 2 THEN SubSeq(s, Len(s) - 1, Len(s)) ELSE s

\* list(s)[:-2]
Batch(s) == IF Len(s) >= 2 THEN SubSeq(s, 1, Len(s) - 2) ELSE << >>

\* (1,) * n
Ones(n) == [i \in 1..n |-> 1]

(* ----------------------------- results -------------------------------- *)
NoTensor == [shape |-> << >>, padded |-> << >>, layout |-> "NONE", storage |-> "NONE",
             dev |-> NoDevice, mem |-> NoMemory, dtype |-> "NONE", buf |-> 0, obj |-> 0]

\* a call that returns tensor t; path names the branch that produced it
Return(t, path) == [ok |-> TRUE, t |-> t, path |-> path]

\* a call that raises
Raise(why) == [ok |-> FALSE, t |-> NoTensor, path |-> why]

(* ------------------------------ Shape --------------------------------- *)
\* Shape(shape, full_shape)
Shape(dims, padded) == [dims |-> dims, padded |-> padded]

\* tensor.shape
ShapeOf(t) == Shape(t.shape, t.padded)

\* has_storage_type_of
has_storage_type_of(t, storage_type) == t.storage = storage_type

\* Tensor.is_contiguous
is_contiguous(t) == IF t.layout = ROW_MAJOR_LAYOUT THEN t.padded = t.shape ELSE FALSE

(* -------------------- primitives of the tensor library ----------------- *)
\* ttl Tensor.reshape(shape): metadata only, same buffer, a new Tensor object
TtlReshape(t, shape, fresh) ==
    IF Prod(t.padded) # Prod(shape.padded) THEN Raise("volume")
    ELSE IF t.layout = TILE_LAYOUT
            /\ (Len(shape.padded) < 2
                \/ Last2(shape.padded)[1] % TILE_SIZE # 0
                \/ Last2(shape.padded)[2] % TILE_SIZE # 0)
    THEN Raise("tile")
    ELSE Return([t EXCEPT !.shape = shape.dims, !.padded = shape.padded, !.obj = fresh],
                "reinterpret")

\* ttl Tensor.to(layout) on host: tag-only reinterpretation
TtlToLayout(t, layout, fresh) ==
    IF layout = TILE_LAYOUT
       /\ (Len(t.padded) < 2
           \/ Last2(t.padded)[1] % TILE_SIZE # 0
           \/ Last2(t.padded)[2] % TILE_SIZE # 0)
    THEN Raise("tile")
    ELSE Return([t EXCEPT !.layout = layout, !.obj = fresh], "host_to")

\* ttl Tensor.to(device, memory_config): requires a host tensor
TtlToDevice(t, device, memory_config, fresh) ==
    IF t.storage = DEVICE_STORAGE_TYPE THEN Raise("storage")
    ELSE Return([t EXCEPT !.storage = DEVICE_STORAGE_TYPE, !.dev = device,
                          !.mem = memory_config, !.buf = fresh, !.obj = fresh],
                "to_device")

\* ttl Tensor.cpu(): requires a device tensor
TtlCpu(t, fresh) ==
    IF t.storage # DEVICE_STORAGE_TYPE THEN Raise("storage")
    ELSE Return([t EXCEPT !.storage = HOST_STORAGE_TYPE, !.dev = NoDevice,
                          !.mem = NoMemory, !.buf = fresh, !.obj = fresh],
                "from_device")

\* ttl.tensor.untilize: device, tiled input; same shape, row-major result
untilize(t, fresh) ==
    IF t.storage # DEVICE_STORAGE_TYPE \/ t.layout # TILE_LAYOUT THEN Raise("untilize")
    ELSE Return([t EXCEPT !.layout = ROW_MAJOR_LAYOUT, !.buf = fresh, !.obj = fresh],
                "untilize")

\* ttl.tensor.tilize: device, row-major input whose stored last two dims are tile-aligned
tilize(t, output_mem_config, fresh) ==
    IF t.storage # DEVICE_STORAGE_TYPE \/ t.layout # ROW_MAJOR_LAYOUT
       \/ Len(t.padded) < 2
       \/ Last2(t.padded)[1] % TILE_SIZE # 0
       \/ Last2(t.padded)[2] % TILE_SIZE # 0
    THEN Raise("tilize")
    ELSE Return([t EXCEPT !.layout = TILE_LAYOUT, !.mem = output_mem_config,
                          !.buf = fresh, !.obj = fresh], "tilize")

\* ttl.tensor.untilize_with_unpadding(tensor, start, end): 4D tiled device input;
\* the result is row-major with shape end - start + 1 and no padding
untilize_with_unpadding(t, start, end, fresh) ==
    IF t.storage # DEVICE_STORAGE_TYPE \/ t.layout # TILE_LAYOUT
       \/ Len(t.padded) # 4 \/ Len(end) # 4
       \/ \E i \in 1..4 : end[i] + 1 > t.padded[i] \/ end[i] < start[i]
    THEN Raise("untilize_with_unpadding")
    ELSE LET out == [i \in 1..4 |-> end[i] - start[i] + 1]
         IN Return([t EXCEPT !.shape = out, !.padded = out, !.layout = ROW_MAJOR_LAYOUT,
                             !.buf = fresh, !.obj = fresh], "untilize_with_unpadding")

\* ttl.tensor.tilize_with_val_padding(tensor, output_shape, start, value): 4D row-major
\* device input; the result is tiled with the stored shape output_shape
tilize_with_val_padding(t, output_shape, fresh) ==
    IF t.storage # DEVICE_STORAGE_TYPE \/ t.layout # ROW_MAJOR_LAYOUT
       \/ Len(t.padded) # 4 \/ Len(output_shape) # 4
       \/ \E i \in 1..4 : output_shape[i] < t.padded[i]
       \/ output_shape[3] % TILE_SIZE # 0 \/ output_shape[4] % TILE_SIZE # 0
    THEN Raise("tilize_with_val_padding")
    ELSE Return([t EXCEPT !.shape = output_shape, !.padded = output_shape,
                          !.layout = TILE_LAYOUT, !.buf = fresh, !.obj = fresh],
                "tilize_with_val_padding")

\* ttl Tensor.pad(output_shape, start, value): 4D row-major host input, zero fill
pad(t, output_shape, fresh) ==
    IF t.storage # HOST_STORAGE_TYPE \/ t.layout # ROW_MAJOR_LAYOUT
       \/ Len(t.padded) # 4 \/ Len(output_shape) # 4
       \/ \E i \in 1..4 : output_shape[i] < t.padded[i]
    THEN Raise("pad")
    ELSE Return([t EXCEPT !.shape = output_shape, !.padded = output_shape,
                          !.buf = fresh, !.obj = fresh], "pad")

\* ttl Tensor.unpad_from_tile(output_shape): 4D row-major host input; trailing
\* elements are trimmed in every dimension where the stored size exceeds output_shape
unpad_from_tile(t, output_shape, fresh) ==
    IF t.storage # HOST_STORAGE_TYPE \/ t.layout # ROW_MAJOR_LAYOUT
       \/ Len(t.padded) # 4 \/ Len(output_shape) # 4
       \/ \E i \in 1..4 : output_shape[i] > t.padded[i]
    THEN Raise("unpad_from_tile")
    ELSE Return([t EXCEPT !.shape = output_shape, !.padded = output_shape,
                          !.buf = fresh, !.obj = fresh], "unpad_from_tile")

\* ttl.tensor.reshape(tensor, w, z, y, x): the device reshape primitive on 4D dims
TtlReshape4D(t, wzyx, fresh) ==
    IF t.storage # DEVICE_STORAGE_TYPE \/ Len(t.padded) # 4 \/ Len(wzyx) # 4
       \/ Prod(t.padded) # Prod(wzyx)
    THEN Raise("volume")
    ELSE IF t.layout = TILE_LAYOUT
            /\ (wzyx[3] % TILE_SIZE # 0 \/ wzyx[4] % TILE_SIZE # 0)
    THEN Raise("tile")
    ELSE Return([t EXCEPT !.shape = wzyx, !.padded = wzyx, !.buf = fresh, !.obj = fresh],
                "device_reshape")

(* ------------------------ the host array library ----------------------- *)
\* dtype of the torch.Tensor that ttl Tensor.to_torch() produces
TorchDtype(dtype) == IF dtype = "bfloat16" THEN "torch.bfloat16" ELSE "torch.float32"

\* dtype ttl.tensor.Tensor(torch_tensor, None) infers
DtypeOfTorch(torch_dtype) == IF torch_dtype = "torch.bfloat16" THEN "bfloat16" ELSE "float32"

\* ttl Tensor.to_torch(): the whole stored (padded) buffer, row-major
TtlToTorch(t) == [shape |-> t.padded, dtype |-> TorchDtype(t.dtype)]

\* torch.Tensor.reshape(shape).contiguous().clone()
torch_reshape(tensor, shape) ==
    IF Prod(tensor.shape) # Prod(shape.padded) THEN Raise("volume")
    ELSE Return([tensor EXCEPT !.shape = shape.padded], "torch_reshape")

(* ------------------------- sequencing of calls ------------------------- *)
\* F applied to the tensor r returns; an exception raised by r passes through
Bind(r, F(_)) == CHOOSE y \in {IF v.ok THEN F(v.t) ELSE v : v \in {r}} : TRUE

\* the tensor r returns, returned from the branch named path
From(r, path) == CHOOSE y \in {IF v.ok THEN Return(v.t, path) ELSE v : v \in {r}} : TRUE

(* --------------------------- ttnn/tensor.py ---------------------------- *)
\* variant: a to_device that hands a device tensor back instead of raising
to_device_lenient(tensor, device, memory_config, fresh) ==
    IF has_storage_type_of(tensor, DEVICE_STORAGE_TYPE) THEN Return(tensor, "same")
    ELSE TtlToDevice(tensor, device, memory_config, fresh)

\* to_device(tensor, device, memory_config=DRAM_MEMORY_CONFIG)
to_device(tensor, device, memory_config, fresh) ==
    TtlToDevice(tensor, device, memory_config, fresh)

\* from_device(tensor)
from_device(tensor, fresh) == TtlCpu(tensor, fresh)

\* variant: a requires_padding_change without the ROW_MAJOR_LAYOUT clause
requires_padding_change_tile_only(layout, shape) ==
    /\ layout = TILE_LAYOUT
    /\ Last2(shape.dims) = Last2(shape.padded)
    /\ \E i \in 1..Len(Last2(shape.dims)) : Last2(shape.dims)[i] % TILE_SIZE # 0

\* to_layout.requires_padding_change(layout, shape)
requires_padding_change(layout, shape) ==
    LET intended_shape == Last2(shape.dims)
        padded_shape == Last2(shape.padded)
        n == Len(intended_shape)
    IN IF layout = ROW_MAJOR_LAYOUT /\ intended_shape # padded_shape THEN TRUE
       ELSE IF layout = TILE_LAYOUT
               /\ intended_shape = padded_shape
               /\ (n < 2 \/ intended_shape[n] % TILE_SIZE # 0
                         \/ intended_shape[n - 1] % TILE_SIZE # 0)
       THEN TRUE
       ELSE FALSE

\* variant: lines 216-219 without the test of the layout tag
padding_unchanged(tensor, layout) == ~requires_padding_change(layout, ShapeOf(tensor))

\* to_layout, lines 216-219: neither the padding nor the layout tag has to change
nothing_to_change(tensor, layout) ==
    ~requires_padding_change(layout, ShapeOf(tensor)) /\ ~(tensor.layout # layout)

\* from_torch(tensor, dtype) with the default layout=ROW_MAJOR_LAYOUT, device=None;
\* dtype "None" stands for the omitted argument.  The wrapped array is row-major
\* and unpadded, so the to_layout call of line 371 returns it at line 219.
from_torch(tensor, dtype, fresh) ==
    LET made == [shape |-> tensor.shape, padded |-> tensor.shape,
                 layout |-> ROW_MAJOR_LAYOUT, storage |-> HOST_STORAGE_TYPE,
                 dev |-> NoDevice, mem |-> NoMemory,
                 dtype |-> IF dtype = "None" THEN DtypeOfTorch(tensor.dtype) ELSE dtype,
                 buf |-> fresh, obj |-> fresh]
    IN IF nothing_to_change(made, ROW_MAJOR_LAYOUT) THEN Return(made, "from_torch")
       ELSE Raise("from_torch")

\* to_torch(tensor), lines 405-415; every caller passes a row-major host tensor, for
\* which lines 399-403 do nothing.  The result is a torch.Tensor, the record [shape, dtype]
to_torch(tensor, fresh) ==
    IF has_storage_type_of(tensor, DEVICE_STORAGE_TYPE) THEN Raise("storage")
    ELSE IF tensor.layout # ROW_MAJOR_LAYOUT THEN Raise("layout")
    ELSE Bind(TtlReshape(tensor, Shape(tensor.padded, tensor.padded), fresh),
              LAMBDA x : Return(TtlToTorch(tensor), "to_torch"))

\* variant: a wildcard resolution that divides by the signed product
ResolveWildcardSigned(input_shape, shape) ==
    IF Prod(shape) < 0
    THEN [i \in 1..Len(shape) |->
             IF shape[i] = -1 THEN -(Prod(input_shape) \div (-Prod(shape))) ELSE shape[i]]
    ELSE shape

\* _reshape, lines 91-102: the wildcard of a tuple shape
ResolveWildcard(input_shape, shape) ==
    LET volume == Prod(input_shape)
        new_volume == Prod(shape)
    IN IF new_volume < 0
       THEN LET index_of_negative_1 == CHOOSE i \in 1..Len(shape) : shape[i] = -1
            IN [shape EXCEPT ![index_of_negative_1] = volume \div (-new_volume)]
       ELSE shape

\* variant: a ttnn_reshape that copies the data into a buffer of its own
ttnn_reshape_copying(tensor, shape, fresh) ==
    Bind(TtlReshape(tensor, shape, fresh), LAMBDA t :
         Return([t EXCEPT !.buf = fresh], "reinterpret"))

\* _reshape.ttnn_reshape
ttnn_reshape(tensor, shape, fresh) == TtlReshape(tensor, shape, fresh)

\* _reshape, lines 140-162: the round trip through the host array library
reshape_general(input_tensor, shape, fresh) ==
    LET on_device == has_storage_type_of(input_tensor, DEVICE_STORAGE_TYPE)
        device == input_tensor.dev
    IN From(
        Bind(IF on_device THEN from_device(input_tensor, fresh)
             ELSE Return(input_tensor, "host"), LAMBDA t0 :
        Bind(TtlToLayout(t0, ROW_MAJOR_LAYOUT, fresh), LAMBDA t1 :
        Bind(to_torch(t1, fresh), LAMBDA t2 :
        Bind(torch_reshape(t2, shape), LAMBDA t3 :
        Bind(from_torch(t3, input_tensor.dtype, fresh), LAMBDA t4 :
        Bind(IF on_device THEN to_device(t4, device, DRAM_MEMORY_CONFIG, fresh)
             ELSE Return(t4, "host"), LAMBDA t5 :
        ttnn_reshape(t5, shape, fresh))))))), "general")

\* _reshape, lines 107-162, shape a Shape
reshape_to_shape(input_tensor, shape, fresh) ==
    IF ShapeOf(input_tensor) = shape THEN Return(input_tensor, "same")
    ELSE IF is_contiguous(input_tensor)
            /\ (has_storage_type_of(input_tensor, DEVICE_STORAGE_TYPE)
                  => Last(input_tensor.shape) = Last(shape.dims))
    THEN ttnn_reshape(input_tensor, shape, fresh)
    ELSE IF input_tensor.layout = TILE_LAYOUT /\ Len(shape.padded) < 2
    THEN Raise("unpack")
    ELSE IF input_tensor.layout = TILE_LAYOUT
            /\ Last2(shape.padded)[1] % TILE_SIZE = 0
            /\ Last2(shape.padded)[2] % TILE_SIZE = 0
    THEN ttnn_reshape(input_tensor, shape, fresh)
    ELSE IF has_storage_type_of(input_tensor, DEVICE_STORAGE_TYPE)
            /\ Len(input_tensor.shape) = 4 /\ Len(shape.dims) = 4
    THEN From(Bind(TtlReshape4D(input_tensor, shape.dims, fresh), LAMBDA t1 :
              ttnn_reshape(t1, shape, fresh)), "device_reshape")
    ELSE reshape_general(input_tensor, shape, fresh)

\* _reshape(input_tensor, shape); arg.tuple tells a tuple from a Shape
_reshape(input_tensor, arg, fresh) ==
    IF arg.tuple /\ ~(Count(arg.dims, -1) <= 1) THEN Raise("wildcard")
    ELSE IF arg.tuple
    THEN reshape_to_shape(input_tensor,
                          Shape(ResolveWildcard(input_tensor.shape, arg.dims),
                                ResolveWildcard(input_tensor.shape, arg.dims)), fresh)
    ELSE reshape_to_shape(input_tensor, Shape(arg.dims, arg.padded), fresh)

\* _reshape_to_4D(tensor)
_reshape_to_4D(tensor, fresh) ==
    IF Len(tensor.shape) = 4 THEN Return(tensor, "same")
    ELSE IF Len(tensor.shape) > 4 THEN Raise("rank")
    ELSE _reshape(tensor, [tuple |-> FALSE,
                           dims |-> Ones(4 - Len(tensor.shape)) \o tensor.shape,
                           padded |-> Ones(4 - Len(tensor.shape)) \o tensor.padded], fresh)

\* to_layout.unpad_with_pytorch(ttnn_tensor)
unpad_with_pytorch(ttnn_tensor, fresh) ==
    LET current_shape == ttnn_tensor.padded
        desired_shape == ttnn_tensor.shape
    IN Bind(IF ttnn_tensor.layout # ROW_MAJOR_LAYOUT
            THEN TtlToLayout(ttnn_tensor, ROW_MAJOR_LAYOUT, fresh)
            ELSE Return(ttnn_tensor, "host"), LAMBDA ttl_tensor :
       from_torch([TtlToTorch(ttl_tensor) EXCEPT !.shape =
                      [dim \in 1..Len(current_shape) |->
                          IF current_shape[dim] > desired_shape[dim]
                          THEN desired_shape[dim] ELSE @[dim]]], "None", fresh))

\* Tensor(input_tensor.value if not layout_change_needed else input_tensor.value.to(layout))
Rewrap(input_tensor, layout, layout_change_needed, fresh) ==
    IF layout_change_needed THEN TtlToLayout(input_tensor, layout, fresh)
    ELSE Return([input_tensor EXCEPT !.obj = fresh], "wrap")

\* to_layout.impl, lines 243-253: the layout tag changes, the padding does not
impl_layout_only(tensor, layout, is_on_device, fresh) ==
    IF is_on_device
    THEN IF layout = ROW_MAJOR_LAYOUT THEN untilize(tensor, fresh)
         ELSE IF layout = TILE_LAYOUT THEN tilize(tensor, tensor.mem, fresh)
         ELSE Raise("unsupported")
    ELSE TtlToLayout(tensor, layout, fresh)

\* variant: line 259 without the test of the width
native_unpad_any_width(input_tensor, layout_change_needed) == layout_change_needed

\* to_layout.impl, line 259: the device primitive unpads only to an even width
native_unpad(input_tensor, layout_change_needed) ==
    layout_change_needed /\ Last(input_tensor.shape) % 2 = 0

\* to_layout.impl, lines 257-284: ROW_MAJOR_LAYOUT requested of a device tensor
impl_row_major_device(input_tensor, layout, layout_change_needed, fresh) ==
    IF native_unpad(input_tensor, layout_change_needed)
    THEN From(Bind(_reshape_to_4D(input_tensor, fresh), LAMBDA t1 :
              untilize_with_unpadding(t1, <<0, 0, 0, 0>>,
                                      [i \in 1..4 |-> t1.shape[i] - 1], fresh)),
              "untilize_with_unpadding")
    ELSE From(Bind(from_device(input_tensor, fresh), LAMBDA t1 :
              Bind(IF layout_change_needed THEN TtlToLayout(t1, layout, fresh)
                   ELSE Return(t1, "host"), LAMBDA t2 :
              IF Batch(t2.shape) = Batch(t2.padded)
              THEN Bind(_reshape_to_4D(t2, fresh), LAMBDA t3 :
                   Bind(Rewrap(t3, layout, layout_change_needed, fresh), LAMBDA t4 :
                   unpad_from_tile(t4, t4.shape, fresh)))
              ELSE unpad_with_pytorch(t2, fresh))), "host_round_trip")

\* to_layout.impl, lines 285-296: ROW_MAJOR_LAYOUT requested of a host tensor
impl_row_major_host(input_tensor, layout, necessary_to_change_padding, layout_change_needed, fresh) ==
    IF necessary_to_change_padding
    THEN From(Bind(_reshape_to_4D(input_tensor, fresh), LAMBDA t1 :
              Bind(Rewrap(t1, layout, layout_change_needed, fresh), LAMBDA t2 :
              unpad_from_tile(t2, t2.shape, fresh))), "host_unpad")
    ELSE IF layout_change_needed
    THEN Rewrap(input_tensor, layout, layout_change_needed, fresh)
    ELSE Raise("unbound")

\* variant: to_layout.impl without the _reshape of line 298
restore_shape_skipped(output, intended_shape, fresh) == output

\* to_layout.impl, line 298: the logical shape is restored by _reshape
restore_shape(output, intended_shape, fresh) ==
    Bind(output, LAMBDA output_tensor :
         From(_reshape(output_tensor, [tuple |-> TRUE, dims |-> intended_shape,
                                       padded |-> intended_shape], fresh),
              output.path))

\* to_layout.impl, lines 255-299
impl_row_major(input_tensor, layout, necessary_to_change_padding, layout_change_needed, is_on_device, intended_shape, fresh) ==
    restore_shape(IF is_on_device
                  THEN impl_row_major_device(input_tensor, layout, layout_change_needed,
                                             fresh)
                  ELSE impl_row_major_host(input_tensor, layout,
                                           necessary_to_change_padding,
                                           layout_change_needed, fresh),
                  intended_shape, fresh)

\* variant: lines 306-309 without the outer modulo
PaddedDimAlways(dim) == dim + (TILE_SIZE - (dim % TILE_SIZE))

\* to_layout.impl, lines 306-309: the tile-aligned size of a dimension
PaddedDim(dim) == dim + ((TILE_SIZE - (dim % TILE_SIZE)) % TILE_SIZE)

\* to_layout.impl, lines 300-330
impl_tile(tensor, layout, is_on_device, fresh) ==
    LET rank == Len(tensor.shape)
        original_batch_sizes == IF rank > 1 THEN Batch(tensor.shape) ELSE << >>
        height == IF rank > 1 THEN tensor.shape[rank - 1] ELSE 1
        width == tensor.shape[rank]
        padded_height == PaddedDim(height)
        padded_width == PaddedDim(width)
    IN From(
        Bind(_reshape_to_4D(tensor, fresh), LAMBDA t1 :
        Bind(IF t1.layout = ROW_MAJOR_LAYOUT /\ is_on_device
             THEN tilize_with_val_padding(
                      t1, Batch(t1.shape) \o <<padded_height, padded_width>>, fresh)
             ELSE IF t1.layout = ROW_MAJOR_LAYOUT
             THEN Bind(pad(t1, Batch(t1.shape) \o <<padded_height, padded_width>>, fresh),
                       LAMBDA p : TtlToLayout(p, layout, fresh))
             ELSE Return(t1, "tile"), LAMBDA t2 :
        _reshape(t2, [tuple |-> FALSE,
                      dims |-> original_batch_sizes \o <<height, width>>,
                      padded |-> original_batch_sizes \o <<padded_height, padded_width>>],
                 fresh))),
        IF is_on_device THEN "tilize_with_val_padding" ELSE "host_pad")

\* to_layout(tensor, layout)
to_layout(tensor, layout, fresh) ==
    LET necessary_to_change_padding == requires_padding_change(layout, ShapeOf(tensor))
        layout_change_needed == tensor.layout # layout
        is_on_device == has_storage_type_of(tensor, DEVICE_STORAGE_TYPE)
        intended_shape == tensor.shape
    IN IF nothing_to_change(tensor, layout)
       THEN Return(tensor, "noop")
       ELSE IF layout_change_needed /\ ~necessary_to_change_padding
       THEN impl_layout_only(tensor, layout, is_on_device, fresh)
       ELSE IF layout = ROW_MAJOR_LAYOUT
       THEN impl_row_major(tensor, layout, necessary_to_change_padding,
                           layout_change_needed, is_on_device, intended_shape, fresh)
       ELSE impl_tile(tensor, layout, is_on_device, fresh)

\* torch.Tensor.__getitem__ with the row range [:n], cloned
torch_getitem(tensor, n) ==
    [tensor EXCEPT !.shape = [tensor.shape EXCEPT ![1] = IF n < @ THEN n ELSE @]]

\* Tensor.__getitem__(self, slices), slices the row range [:n]
getitem(self, n, fresh) ==
    IF self.layout # ROW_MAJOR_LAYOUT THEN Raise("layout")
    ELSE IF has_storage_type_of(self, DEVICE_STORAGE_TYPE)
    THEN From(Bind(from_device(self, fresh), LAMBDA t1 :
              Bind(to_torch(t1, fresh), LAMBDA t2 :
              Bind(from_torch(torch_getitem(t2, n), self.dtype, fresh), LAMBDA t3 :
              to_device(t3, self.dev, DRAM_MEMORY_CONFIG, fresh)))), "getitem")
    ELSE From(Bind(to_torch(self, fresh), LAMBDA t2 :
              from_torch(torch_getitem(t2, n), self.dtype, fresh)), "getitem")

(* ------------------------- the tensors at start ------------------------ *)
\* the smallest multiple of the tile edge that is >= d
TileAligned(d) ==
    CHOOSE m \in d..(d + TILE_SIZE) :
        m % TILE_SIZE = 0 /\ \A k \in d..(m - 1) : k % TILE_SIZE # 0

\* sizes of the last two dimensions
HeightDims == {3, 32}

WidthDims == {2, 3, 32, 33}

BatchDims == 1..MaxBatch

LogicalShapes ==
    {<<w>> : w \in WidthDims}
    \cup {<<h, w>> : h \in HeightDims, w \in WidthDims}
    \cup {<<b, h, w>> : b \in BatchDims, h \in HeightDims, w \in WidthDims}
    \cup {<<a, b, h, w>> : a \in BatchDims, b \in BatchDims, h \in HeightDims, w \in WidthDims}

\* the stored shapes a logical shape may have: the leading batch dimension padded
\* by 0..MaxBatchPad, the last two dimensions either unpadded or padded to the tile
PaddedShapes(shape) ==
    LET rank == Len(shape)
    IN {[i \in 1..rank |-> IF i = 1 /\ rank > 2 THEN shape[i] + bp
                           ELSE IF i > rank - 2 /\ tile THEN TileAligned(shape[i])
                           ELSE shape[i]] :
          bp \in 0..MaxBatchPad, tile \in BOOLEAN}

\* a tiled tensor has rank >= 2 and tile-aligned stored last two dimensions
WellFormed(t) ==
    t.layout = TILE_LAYOUT =>
        /\ Len(t.padded) >= 2
        /\ Last2(t.padded)[1] % TILE_SIZE = 0
        /\ Last2(t.padded)[2] % TILE_SIZE = 0

Placements ==
    {[storage |-> HOST_STORAGE_TYPE, dev |-> NoDevice, mem |-> NoMemory]}
    \cup {[storage |-> DEVICE_STORAGE_TYPE, dev |-> d, mem |-> m] :
            d \in Devices, m \in MemoryConfigs}

InitialTensors ==
    {t \in UNION {{[shape |-> s, padded |-> p, layout |-> l, storage |-> pl.storage,
                    dev |-> pl.dev, mem |-> pl.mem, dtype |-> dt, buf |-> 1, obj |-> 1] :
                     p \in PaddedShapes(s), l \in Layouts, pl \in Placements,
                     dt \in DataTypes} : s \in LogicalShapes} :
        WellFormed(t)}

(* ------------------------------ the calls ------------------------------ *)
\* the tensor returned last: every call is applied to it
Cur == tensors[Len(tensors)]

\* identity of the next Tensor object and of the next buffer
Fresh == Len(tensors) + 1

\* an exception ends the program
RunningWithin(n) == Len(calls) < n /\ (calls # << >> => calls[Len(calls)].ok)

Running == RunningWithin(MaxCalls)

NoArg == [layout |-> "NONE", dims |-> << >>, dev |-> NoDevice, mem |-> NoMemory, n |-> 0]

\* the caller keeps every Tensor it was handed; the input is left as it was
Record(op, arg, r) ==
    /\ calls' = Append(calls, [op |-> op, arg |-> arg, inp |-> Cur.obj, ok |-> r.ok,
                               out |-> r.t.obj, path |-> r.path])
    /\ tensors' = IF r.ok /\ r.t.obj # Cur.obj THEN Append(tensors, r.t) ELSE tensors

\* the tuples reshape is called with
ReshapeArgs(t) ==
    {<<-1>>, <<-1, Last(t.shape)>>, <<-1, 2>>, <<-1, 5>>, <<-1, -1>>, t.padded}
    \cup {Ones(5 - Len(t.shape)) \o t.shape : x \in {y \in {1} : Len(t.shape) <= 4}}
    \cup {Batch(t.shape) \o <<Last2(t.shape)[2], Last2(t.shape)[1]>> :
            x \in {y \in {1} : Len(t.shape) >= 2}}

\* row ranges [:n]
Slices == {1, 2}

ToLayout ==
    /\ Running
    /\ \E layout \in Layouts :
         Record("to_layout", [NoArg EXCEPT !.layout = layout], to_layout(Cur, layout, Fresh))

Reshape ==
    /\ Running
    /\ \E shape \in ReshapeArgs(Cur) :
         Record("reshape", [NoArg EXCEPT !.dims = shape],
                _reshape(Cur, [tuple |-> TRUE, dims |-> shape, padded |-> shape], Fresh))

ToDevice ==
    /\ Running
    /\ \E device \in Devices, memory_config \in MemoryConfigs :
         Record("to_device", [NoArg EXCEPT !.dev = device, !.mem = memory_config],
                to_device(Cur, device, memory_config, Fresh))

FromDevice ==
    /\ Running
    /\ Record("from_device", NoArg, from_device(Cur, Fresh))

GetItem ==
    /\ Running
    /\ \E n \in Slices :
         Record("getitem", [NoArg EXCEPT !.n = n], getitem(Cur, n, Fresh))

Init ==
    /\ tensors \in {<<t>> : t \in InitialTensors}
    /\ calls = << >>

Next == ToLayout \/ Reshape \/ ToDevice \/ FromDevice \/ GetItem

Spec == Init /\ [][Next]_vars

\* conversions only, one call more than MaxCalls: a conversion and its way back
ConvertLayout ==
    /\ RunningWithin(MaxCalls + 1)
    /\ \E layout \in Layouts :
         Record("to_layout", [NoArg EXCEPT !.layout = layout], to_layout(Cur, layout, Fresh))

NextLayout == ConvertLayout

SpecLayout == Init /\ [][NextLayout]_vars

(* ------------------------------ claims -------------------------------- *)
\* the tensor call i was applied to, and the tensor it returned
InputOf(i) == tensors[calls[i].inp]

OutputOf(i) == tensors[calls[i].out]

Returned(i, op) == calls[i].op = op /\ calls[i].ok

\* call i converts to TILE_LAYOUT and call i + 1 converts its result back
RoundTrip(i) ==
    /\ i + 1 <= Len(calls)
    /\ Returned(i, "to_layout") /\ calls[i].arg.layout = TILE_LAYOUT
    /\ Returned(i + 1, "to_layout") /\ calls[i + 1].arg.layout = ROW_MAJOR_LAYOUT

\* C1 as stated: to_layout(to_layout(t, TILE_LAYOUT), ROW_MAJOR_LAYOUT) has the
\* logical shape of t, for every t of rank 1 to 4
C1_RoundTripKeepsShape ==
    \A i \in 1..Len(calls) : RoundTrip(i) => OutputOf(i + 1).shape = InputOf(i).shape

\* C1 amended: the round trip returns the logical shape of t when t has rank 2 to 4,
\* and the shape (1, w) when t has rank 1 and shape (w,)
C1_RoundTripShape ==
    \A i \in 1..Len(calls) :
        RoundTrip(i) =>
            OutputOf(i + 1).shape = IF Len(InputOf(i).shape) = 1
                                    THEN <<1>> \o InputOf(i).shape
                                    ELSE InputOf(i).shape

\* a padded rank-2 device tensor went to TILE_LAYOUT and back
C1_Witness ==
    \E i \in 1..Len(calls) :
        /\ RoundTrip(i)
        /\ Len(InputOf(i).shape) = 2
        /\ InputOf(i).storage = DEVICE_STORAGE_TYPE
        /\ OutputOf(i).padded # OutputOf(i).shape
        /\ calls[i + 1].path = "untilize_with_unpadding"

\* call i is a returned to_layout(t, layout)
Converted(i, layout) == Returned(i, "to_layout") /\ calls[i].arg.layout = layout

\* C2: to_layout(t, TILE_LAYOUT) returns a tensor whose padded last two dims are the
\* smallest multiples of 32 >= the logical last two dims (h, w) of t; a rank-1 t of
\* shape (w,) counts as (1, w)
C2_TilePaddedShape ==
    \A i \in 1..Len(calls) :
        Converted(i, TILE_LAYOUT) =>
            LET hw == IF Len(InputOf(i).shape) >= 2 THEN Last2(InputOf(i).shape)
                      ELSE <<1>> \o InputOf(i).shape
            IN /\ Len(OutputOf(i).padded) >= 2
               /\ Last2(OutputOf(i).shape) = hw
               /\ Last2(OutputOf(i).padded) = <<TileAligned(hw[1]), TileAligned(hw[2])>>

\* an unpadded row-major tensor of width 33 was padded to width 64
C2_Witness ==
    \E i \in 1..Len(calls) :
        /\ Converted(i, TILE_LAYOUT)
        /\ InputOf(i).padded = InputOf(i).shape
        /\ Len(InputOf(i).shape) >= 2
        /\ Last(InputOf(i).shape) = 33
        /\ Last(OutputOf(i).padded) = 64
        /\ calls[i].path \in {"host_pad", "tilize_with_val_padding"}

\* the number of -1 entries of the tuple reshape call i was given, the product of
\* its other entries, and the volume of the tensor it was applied to
Wildcards(i) == Count(calls[i].arg.dims, -1)

OthersProduct(i) == -Prod(calls[i].arg.dims)

VolumeOfInput(i) == Prod(InputOf(i).shape)

C4_Rank5Raises ==
    \A i \in 1..Len(calls) :
        calls[i].op = "reshape" /\ Len(InputOf(i).shape) = 4 /\ Len(calls[i].arg.dims) > 4
            => ~calls[i].ok

\* C5 as stated: to_layout(t, ROW_MAJOR_LAYOUT) of a device tensor returns a tensor
\* on the same device
C5_RowMajorStaysOnDevice ==
    \A i \in 1..Len(calls) :
        Converted(i, ROW_MAJOR_LAYOUT) /\ InputOf(i).storage = DEVICE_STORAGE_TYPE =>
            /\ OutputOf(i).storage = DEVICE_STORAGE_TYPE
            /\ OutputOf(i).dev = InputOf(i).dev

\* C6 as stated: indexing returns a tensor with the input's dtype in the input's
\* storage location: host for host, the same device and memory config for device
C6_GetItemKeepsPlacement ==
    \A i \in 1..Len(calls) :
        Returned(i, "getitem") =>
            /\ OutputOf(i).dtype = InputOf(i).dtype
            /\ OutputOf(i).storage = InputOf(i).storage
            /\ OutputOf(i).dev = InputOf(i).dev
            /\ OutputOf(i).mem = InputOf(i).mem

C8_NoSharedBuffer ==
    \A j, k \in 1..Len(tensors) : j # k => tensors[j].buf # tensors[k].buf

\* the paths that reinterpret the stored data without moving it
ZeroCopyPaths == {<<"reshape", "reinterpret">>, <<"to_layout", "host_to">>}

\* C8 amended: a call that returns a new Tensor hands it the buffer of its input,
\* which the input keeps holding, exactly when it reinterprets without data
\* movement (the reshape fast paths, the layout re-tag of a host tensor); every
\* other call returns a tensor on a buffer that no Tensor created before it holds
C8_SharedOnlyByReinterpretation ==
    \A i \in 1..Len(calls) :
        calls[i].ok /\ calls[i].out # calls[i].inp =>
            IF <<calls[i].op, calls[i].path>> \in ZeroCopyPaths
            THEN OutputOf(i).buf = InputOf(i).buf
            ELSE \A j \in 1..(calls[i].out - 1) : tensors[j].buf # OutputOf(i).buf

\* a reshape returned a new Tensor on the buffer its input still holds
C8_Witness ==
    \E i \in 1..Len(calls) :
        /\ Returned(i, "reshape")
        /\ calls[i].path = "reinterpret"
        /\ calls[i].out # calls[i].inp
        /\ OutputOf(i).shape # InputOf(i).shape
        /\ OutputOf(i).buf = InputOf(i).buf

\* the last two dimensions of t are stored padded
PaddedInLastTwo(t) == Last2(t.padded) # Last2(t.shape)

\* C9 as stated: every tensor returned by to_layout(t, ROW_MAJOR_LAYOUT) has its
\* padded shape equal to its logical shape in every dimension
C9_RowMajorUnpadded ==
    \A i \in 1..Len(calls) :
        Converted(i, ROW_MAJOR_LAYOUT) => OutputOf(i).padded = OutputOf(i).shape

\* C9 amended: every tensor returned by to_layout(t, ROW_MAJOR_LAYOUT) has its
\* padded shape equal to its logical shape in the last two dimensions, and in every
\* dimension when t was padded in one of its last two; a t padded only in a batch
\* dimension keeps its padded shape
C9_RowMajorUnpaddedLastTwo ==
    \A i \in 1..Len(calls) :
        Converted(i, ROW_MAJOR_LAYOUT) =>
            /\ ~PaddedInLastTwo(OutputOf(i))
            /\ PaddedInLastTwo(InputOf(i)) => OutputOf(i).padded = OutputOf(i).shape
            /\ ~PaddedInLastTwo(InputOf(i)) => OutputOf(i).padded = InputOf(i).padded

\* a tile tensor padded in its batch and in its last two dimensions came back unpadded
C9_Witness ==
    \E i \in 1..Len(calls) :
        /\ Converted(i, ROW_MAJOR_LAYOUT)
        /\ InputOf(i).layout = TILE_LAYOUT
        /\ PaddedInLastTwo(InputOf(i))
        /\ Batch(InputOf(i).padded) # Batch(InputOf(i).shape)
        /\ OutputOf(i).padded = InputOf(i).shape

\* call i is a returned to_layout(t, ROW_MAJOR_LAYOUT) of a device tensor that has
\* to be unpadded
DeviceUnpad(i) ==
    /\ Converted(i, ROW_MAJOR_LAYOUT)
    /\ InputOf(i).storage = DEVICE_STORAGE_TYPE
    /\ PaddedInLastTwo(InputOf(i))

\* C10 as stated: unpadding a device tensor uses untilize_with_unpadding whenever
\* the width is even and the host round trip only when the width is odd
C10_NativeWheneverEven ==
    \A i \in 1..Len(calls) :
        DeviceUnpad(i) =>
            /\ Last(InputOf(i).shape) % 2 = 0 => calls[i].path = "untilize_with_unpadding"
            /\ calls[i].path = "host_round_trip" => Last(InputOf(i).shape) % 2 = 1

\* C10 amended: unpadding a device tensor uses untilize_with_unpadding whenever the
\* tensor is in TILE_LAYOUT and its width is even, and the host round trip whenever
\* the width is odd or the tensor is already in ROW_MAJOR_LAYOUT
C10_NativeWhenTiledAndEven ==
    \A i \in 1..Len(calls) :
        DeviceUnpad(i) =>
            IF InputOf(i).layout = TILE_LAYOUT /\ Last(InputOf(i).shape) % 2 = 0
            THEN calls[i].path = "untilize_with_unpadding"
            ELSE calls[i].path = "host_round_trip"

\* a tile tensor of odd width on a device was unpadded through the host
C10_Witness ==
    \E i \in 1..Len(calls) :
        /\ DeviceUnpad(i)
        /\ InputOf(i).layout = TILE_LAYOUT
        /\ Last(InputOf(i).shape) = 33
        /\ calls[i].path = "host_round_trip"
        /\ OutputOf(i).shape = InputOf(i).shape

\* C11 as stated: a reshape that returns through the general data-movement path
\* returns a tensor with the input's dtype, layout tag and storage location (host
\* for host, the same device for device)
C11_GeneralPathKeepsPlacement ==
    \A i \in 1..Len(calls) :
        Returned(i, "reshape") /\ calls[i].path = "general" =>
            /\ OutputOf(i).dtype = InputOf(i).dtype
            /\ OutputOf(i).layout = InputOf(i).layout
            /\ OutputOf(i).storage = InputOf(i).storage
            /\ OutputOf(i).dev = InputOf(i).dev

\* C12: every to_layout(t, L) that returns, the early return included, returns a
\* tensor whose layout tag is L
C12_ReturnsRequestedLayout ==
    \A i \in 1..Len(calls) :
        \A L \in Layouts : Converted(i, L) => OutputOf(i).layout = L

\* a tile tensor stored padded on a device was asked for TILE_LAYOUT and handed back
\* by the early return
C12_Witness ==
    \E i \in 1..Len(calls) :
        /\ Converted(i, TILE_LAYOUT)
        /\ InputOf(i).storage = DEVICE_STORAGE_TYPE
        /\ InputOf(i).layout = TILE_LAYOUT
        /\ PaddedInLastTwo(InputOf(i))
        /\ calls[i].path = "noop"
        /\ calls[i].out = calls[i].inp

====
